---- MODULE Spec2Model ----
(***************************************************************************)
(* Model of src/src/clang_tool_chain/symbolizer/unwind_windows.c: the COFF *)
(* symbol resolver behind unw_get_proc_name on Windows.                    *)
(*                                                                         *)
(* State: the file-scope globals (g_initialized, g_lock_initialized,       *)
(* g_sym_lock, g_symbol_table, g_symbol_count, g_runtime_base), the mapped *)
(* executable image, and for every thread its position in                  *)
(* unw_windows_sym_init / unw_get_proc_name_windows /                      *)
(* unw_windows_sym_cleanup together with the locals of the call.           *)
(*                                                                         *)
(* Numbers wider than TLC's integers (DWORD, DWORD64) are pairs <<hi, lo>> *)
(* of 16-bit-radix digits: value = hi * 65536 + lo.  A DWORD has           *)
(* hi < 65536.  Bytes and characters are their numeric codes.              *)
(***************************************************************************)
EXTENDS Integers, Sequences, FiniteSets, TLC

(***************************************************************************)
(* Bounds of the model.                                                    *)
(***************************************************************************)
\* number of threads of the concurrent specification
NumThreads == 2
\* length of the raw COFF symbol array of the images of SpecSeq
MaxSyms == 3
\* saturation of the counter of parse executions
MaxParses == 2

(***************************************************************************)
(* Program constants.                                                      *)
(***************************************************************************)
UNW_ESUCCESS == 0
\* libunwind.h (included at unwind_windows.h:37); UNW_ENOINFO is quoted at
\* unwind_windows.c:8
UNW_EUNSPEC == -6540
UNW_ENOINFO == -6549
\* symbol_entry_t.name is char[256]: at most 255 characters and a NUL
NAME_MAX == 255
\* COFF_SYMBOL.Name.ShortName is char[8]
SHORT_NAME_LEN == 8
\* radix of the two-digit representation of DWORD / DWORD64
W16 == 256 * 256

NULL == <<>>

(***************************************************************************)
(* Two-digit arithmetic on DWORD / DWORD64 values.                         *)
(***************************************************************************)
U(hi, lo) == <<hi, lo>>
Norm(hi, lo) == <<hi + (lo \div W16), lo % W16>>
\* DWORD + DWORD evaluated in 32 bits (the C type of both operands)
Add32(a, b) == LET s == Norm(a[1] + b[1], a[2] + b[2]) IN <<s[1] % W16, s[2]>>
\* DWORD64 + DWORD64; the operands of the program stay far below 2^64
Add64(a, b) == Norm(a[1] + b[1], a[2] + b[2])
LE64(a, b) == a[1] < b[1] \/ (a[1] = b[1] /\ a[2] <= b[2])
LT64(a, b) == a[1] < b[1] \/ (a[1] = b[1] /\ a[2] < b[2])
\* a - b for b <= a
Sub64(a, b) == IF a[2] >= b[2] THEN <<a[1] - b[1], a[2] - b[2]>>
               ELSE <<a[1] - b[1] - 1, a[2] + W16 - b[2]>>
\* find_symbol's proximity bound 0x100000
PROXIMITY == U(16, 0)

(***************************************************************************)
(* C strings: byte sequences, NUL = 0.                                     *)
(***************************************************************************)
RECURSIVE NulPos(_, _)
\* index of the first NUL of s at or after position k, Len(s) + 1 if none
NulPos(s, k) == IF k > Len(s) THEN Len(s) + 1
                ELSE IF s[k] = 0 THEN k ELSE NulPos(s, k + 1)
Min(a, b) == IF a <= b THEN a ELSE b
\* strncpy without the bound n and without dst[n] = 0
strncpy_unbounded(src, n) == SubSeq(src, 1, NulPos(src, 1) - 1)
\* strncpy(dst, src, n); dst[n] = 0, read back as a string: the characters
\* of src before its first NUL, at most n of them
strncpy(src, n) == SubSeq(src, 1, Min(NulPos(src, 1) - 1, n))
Pad8(s) == s \o [k \in 1..(SHORT_NAME_LEN - Len(s)) |-> 0]

(***************************************************************************)
(* The executable image: what parse_coff_symbols reads from the mapping.   *)
(***************************************************************************)
IMAGE_DOS_SIGNATURE == 23117
IMAGE_NT_SIGNATURE == 17744
\* IMAGE_SYM_DTYPE_FUNCTION
DTYPE_FUNCTION == 2
\* IMAGE_SYM_CLASS_EXTERNAL, IMAGE_SYM_CLASS_STATIC
CLASS_EXTERNAL == 2
CLASS_STATIC == 3
\* '.'
DOT == 46

\* GetModuleHandleA(NULL): the load base of the process image, 0x140000000
RuntimeBase == U(5 * 4096 * 4, 0)

\* IMAGE_SECTION_HEADER: .text (code, execute) and .data
Sections == << [VirtualAddress |-> U(0, 4096), Characteristics |-> {"CNT_CODE", "MEM_EXECUTE", "MEM_READ"}],
               [VirtualAddress |-> U(0, 8192), Characteristics |-> {"CNT_INITIALIZED_DATA", "MEM_READ", "MEM_WRITE"}] >>

\* the string table that follows the symbol array: a 4-byte size, then
\* "hlong_name" NUL at offset 4
StringTable == <<15, 0, 0, 0, 104, 108, 111, 110, 103, 95, 110, 97, 109, 101, 0>>

\* one raw 18-byte entry of the symbol array, read as a COFF_SYMBOL
RawSym(short, value, sect, type, class, aux) ==
    [ShortName |-> short, Value |-> value, SectionNumber |-> sect,
     Type |-> type, StorageClass |-> class, NumberOfAuxSymbols |-> aux]

\* "f": external function at .text + 0x10
SymF == RawSym(Pad8(<<102>>), U(0, 16), 1, 32, CLASS_EXTERNAL, 0)
\* "g": static symbol at .text + 0x100010, followed by one auxiliary record
SymG == RawSym(Pad8(<<103>>), U(16, 16), 1, 0, CLASS_STATIC, 1)
\* long name (Zeros = 0, Offset = 4): function at .text + 0x20
SymLong == RawSym(<<0, 0, 0, 0, 4, 0, 0, 0>>, U(0, 32), 1, 32, CLASS_EXTERNAL, 0)
\* ".text": the section symbol, followed by one auxiliary record
SymDot == RawSym(Pad8(<<DOT, 116, 101, 120, 116>>), U(0, 0), 1, 0, CLASS_STATIC, 1)
\* "d": external datum in .data
SymData == RawSym(Pad8(<<100>>), U(0, 4), 2, 0, CLASS_EXTERNAL, 0)
\* 18 bytes which, read as a COFF_SYMBOL, look like a function "x" at
\* .text + 0x30 with two auxiliary records: the content of an auxiliary
\* record, or a primary record, depending on where the walk meets it
SymX == RawSym(Pad8(<<120>>), U(0, 48), 1, 32, CLASS_EXTERNAL, 2)

\* "w": external function whose Value is 0xFFFFFFF0, so that
\* VirtualAddress + Value exceeds 2^32 - 1
SymWrap == RawSym(Pad8(<<119>>), U(W16 - 1, W16 - 16), 1, 32, CLASS_EXTERNAL, 0)

Palette == {SymF, SymG, SymLong, SymDot, SymData, SymX}

RECURSIVE SeqsUpTo(_, _)
\* the sequences over S of length at most n
SeqsUpTo(S, n) == IF n = 0 THEN {<<>>}
                  ELSE LET shorter == SeqsUpTo(S, n - 1)
                       IN shorter \cup {Append(q, x) : q \in {r \in shorter : Len(r) = n - 1}, x \in S}

\* sizeof(COFF_SYMBOL)
COFF_SYMBOL_SIZE == 18
\* file offset of the symbol array in the images of the model: the DOS
\* header, the NT headers and the section headers lie below it
SymbolArrayOffset == 1024
MkImage(magic, sig, off, cnt, syms) ==
    [e_magic |-> magic, Signature |-> sig, PointerToSymbolTable |-> off,
     NumberOfSymbols |-> cnt, NumberOfSections |-> Len(Sections),
     sections |-> Sections, symbols |-> syms, string_table |-> StringTable,
     size |-> SymbolArrayOffset + COFF_SYMBOL_SIZE * Len(syms) + Len(StringTable)]

\* the bytes off .. off + len - 1 lie inside the view MapViewOfFile
\* returned, which is as large as the file (img.size)
InView(img, off, len) == off + len <= img.size
\* the raw entry i of the symbol array lies inside the view
SymInView(img, i) ==
    InView(img, img.PointerToSymbolTable + COFF_SYMBOL_SIZE * i, COFF_SYMBOL_SIZE)
\* whether the read of raw entry i raises an access violation: it cannot
\* inside the view; outside, the read is undefined, and either faults or
\* yields what the memory at that address holds
ReadFaults(img, i) == IF SymInView(img, i) THEN {FALSE} ELSE BOOLEAN

\* a well-formed image holding the symbol array syms at file offset 1024
GoodImage(syms) == MkImage(IMAGE_DOS_SIGNATURE, IMAGE_NT_SIGNATURE,
                           IF Len(syms) = 0 THEN 0 ELSE SymbolArrayOffset, Len(syms), syms)

\* an executable cut off in front of its symbol array, the header still
\* declaring the array: symbols is what the memory behind the view holds
TruncatedImage == [GoodImage(<<SymLong, SymF>>) EXCEPT !.size = SymbolArrayOffset]

\* images with a bad signature, a zero symbol-table offset or count, or
\* a symbol array outside the file
OddImages == { MkImage(0, IMAGE_NT_SIGNATURE, SymbolArrayOffset, 1, <<SymF>>),
               MkImage(IMAGE_DOS_SIGNATURE, 0, SymbolArrayOffset, 1, <<SymF>>),
               MkImage(IMAGE_DOS_SIGNATURE, IMAGE_NT_SIGNATURE, 0, 1, <<SymF>>),
               MkImage(IMAGE_DOS_SIGNATURE, IMAGE_NT_SIGNATURE, SymbolArrayOffset, 0, <<SymF>>),
               TruncatedImage }

\* "abcdefgh": a short name that fills the 8-byte field, no NUL in it
Sym8 == RawSym(<<97, 98, 99, 100, 101, 102, 103, 104>>, U(0, 80), 1, 32, CLASS_EXTERNAL, 0)
\* "ab": a short name followed in the field by a NUL and further bytes
SymGap == RawSym(<<97, 98, 0, 100, 0, 0, 0, 0>>, U(0, 96), 1, 32, CLASS_EXTERNAL, 0)
\* a string table whose string at offset 4 is NAME_MAX + 45 characters long
BigStringTable == <<49, 1, 0, 0>> \o [k \in 1..(NAME_MAX + 45) |-> 97] \o <<0>>
\* an image with the two short names and the long name of BigStringTable
NamesImage ==
    [GoodImage(<<Sym8, SymLong, SymGap>>) EXCEPT
        !.string_table = BigStringTable,
        !.size = SymbolArrayOffset + COFF_SYMBOL_SIZE * 3 + Len(BigStringTable)]

\* records "q" and ".q" at +0x40 with every combination of: section
\* number IMAGE_SYM_ABSOLUTE (-1), IMAGE_SYM_UNDEFINED (0), .text, .data
\* and one past the section table; no derived type, pointer, function;
\* class external, static and label (6)
FilterRecords ==
    { RawSym(Pad8(name), U(0, 64), sect, type, class, 0) :
        name \in {<<113>>, <<DOT, 113>>}, sect \in -1..(Len(Sections) + 1),
        type \in {0, 16, 32}, class \in {CLASS_EXTERNAL, CLASS_STATIC, 6} }

\* the images of the sequential specification
SeqImages == {GoodImage(q) : q \in SeqsUpTo(Palette, MaxSyms)} \cup OddImages
             \cup {GoodImage(<<SymF, SymWrap>>)}
             \cup {GoodImage(<<SymF, r>>) : r \in FilterRecords}
             \cup {NamesImage}

\* the images of the concurrent specification
LifecycleImages == { GoodImage(<<>>), GoodImage(<<SymF>>), GoodImage(<<SymDot, SymX>>),
                     GoodImage(<<SymLong, SymF>>),
                     MkImage(0, IMAGE_NT_SIGNATURE, SymbolArrayOffset, 1, <<SymF>>) }

(***************************************************************************)
(* Pure functions of the parser and the resolver.                          *)
(***************************************************************************)
is_executable_section(section) ==
    "CNT_CODE" \in section.Characteristics \/ "MEM_EXECUTE" \in section.Characteristics

\* is_text_symbol without the test of the storage class (lines 106-109)
is_text_symbol_function_only(sym, sections, num_sections) ==
    IF sym.SectionNumber <= 0 \/ sym.SectionNumber > num_sections THEN FALSE
    ELSE IF ~is_executable_section(sections[sym.SectionNumber]) THEN FALSE
    ELSE IF (sym.Type \div 16) % 4 = DTYPE_FUNCTION THEN TRUE
    ELSE FALSE

is_text_symbol(sym, sections, num_sections) ==
    IF sym.SectionNumber <= 0 \/ sym.SectionNumber > num_sections THEN FALSE
    ELSE IF ~is_executable_section(sections[sym.SectionNumber]) THEN FALSE
    ELSE IF (sym.Type \div 16) % 4 = DTYPE_FUNCTION THEN TRUE
    ELSE IF sym.StorageClass = CLASS_EXTERNAL \/ sym.StorageClass = CLASS_STATIC THEN TRUE
    ELSE FALSE

\* Name.LongName.Zeros and Name.LongName.Offset: the two little-endian DWORD
\* halves of the ShortName field (offsets of the model stay below 256)
LongNameZeros(sym) == \A k \in 1..4 : sym.ShortName[k] = 0
LongNameOffset(sym) == sym.ShortName[5]

\* the local buffer name[256] after lines 229-238
symbol_name(sym, string_table) ==
    IF LongNameZeros(sym)
    THEN strncpy(SubSeq(string_table, LongNameOffset(sym) + 1, Len(string_table)), NAME_MAX)
    ELSE strncpy(sym.ShortName, SHORT_NAME_LEN)

\* lines 247-253: the entry stored for a qualifying symbol
symbol_entry(sym, sections, string_table, runtime_base) ==
    [address |-> Add64(runtime_base, Add32(sections[sym.SectionNumber].VirtualAddress, sym.Value)),
     name |-> strncpy(symbol_name(sym, string_table), NAME_MAX),
     filled |-> TRUE]

\* an entry of the block returned by malloc, not written yet
Unfilled == [address |-> U(0, 0), name |-> <<>>, filled |-> FALSE]

compare_symbols(sa, sb) ==
    IF LT64(sa.address, sb.address) THEN -1
    ELSE IF LT64(sb.address, sa.address) THEN 1 ELSE 0

\* the orders qsort may leave the first n entries of tab in: every
\* permutation of them that compare_symbols accepts as sorted (qsort is
\* not stable)
qsort(tab, n) ==
    { [k \in 1..Len(tab) |-> IF k <= n THEN tab[p[k]] ELSE tab[k]] :
        p \in { q \in [1..n -> 1..n] :
                  /\ \A a, b \in 1..n : a # b => q[a] # q[b]
                  /\ \A a \in 1..n : a < n => compare_symbols(tab[q[a]], tab[q[a + 1]]) <= 0 } }

RECURSIVE find_symbol_loop_strict(_, _, _, _, _)
\* find_symbol_loop comparing with < where the code has <=
find_symbol_loop_strict(tab, address, low, high, best) ==
    IF low < high
    THEN LET mid == low + (high - low) \div 2
         IN IF LT64(tab[mid + 1].address, address)
            THEN find_symbol_loop_strict(tab, address, mid + 1, high, mid + 1)
            ELSE find_symbol_loop_strict(tab, address, low, mid, best)
    ELSE best

\* the locals of find_symbol (lines 319-321 and 324); low, high and mid are
\* the C indices, best is the index of the best entry so far plus one, 0
\* for NULL
SearchState(low, high, best, mid) == [low |-> low, high |-> high, best |-> best, mid |-> mid]

\* the loop body with the upper bound set one below mid instead of to mid
find_symbol_step_below_mid(tab, address, s) ==
    LET mid == s.low + (s.high - s.low) \div 2
    IN IF LE64(tab[mid + 1].address, address)
       THEN SearchState(mid + 1, s.high, mid + 1, mid)
       ELSE SearchState(s.low, mid - 1, s.best, mid)

\* lines 324-330: one iteration of the loop, entered with s.low < s.high
find_symbol_step(tab, address, s) ==
    LET mid == s.low + (s.high - s.low) \div 2
    IN IF LE64(tab[mid + 1].address, address)
       THEN SearchState(mid + 1, s.high, mid + 1, mid)
       ELSE SearchState(s.low, mid, s.best, mid)

RECURSIVE find_symbol_loop(_, _, _, _, _)
\* lines 323-331: the loop, from the locals low, high and best
find_symbol_loop(tab, address, low, high, best) ==
    IF low < high
    THEN LET s == find_symbol_step(tab, address, SearchState(low, high, best, 0))
         IN find_symbol_loop(tab, address, s.low, s.high, s.best)
    ELSE best

\* find_symbol without the check of lines 333-336
find_symbol_any_distance(tab, count, address) ==
    IF tab = NULL \/ count = 0 THEN 0
    ELSE find_symbol_loop(tab, address, 0, count, 0)

\* find_symbol: the index (from 1) of the entry found, 0 for NULL
find_symbol(tab, count, address) ==
    IF tab = NULL \/ count = 0 THEN 0
    ELSE LET best == find_symbol_loop(tab, address, 0, count, 0)
         IN IF best # 0 /\ LT64(Sub64(address, tab[best].address), PROXIMITY)
            THEN best ELSE 0

(***************************************************************************)
(* State.                                                                  *)
(***************************************************************************)
VARIABLES
    g_initialized,      \* static volatile LONG g_initialized
    g_lock_initialized, \* static volatile LONG g_lock_initialized
    cs_ready,           \* InitializeCriticalSection(&g_sym_lock) has run
    lock_owner,         \* the thread inside g_sym_lock, 0 for none
    g_symbol_table,     \* NULL or the malloc'ed array of symbol_entry_t
    g_symbol_count,
    g_runtime_base,
    image,              \* the executable file of the process
    pc,                 \* per thread: the statement it is at
    call,               \* per thread: the API call in progress (or the last one)
    lv,                 \* per thread: the locals of parse_coff_symbols
    ret,                \* per thread: what the last call returned
    parse_runs,         \* history: parse_coff_symbols calls since the last reset by cleanup
    last_exit,          \* history: the return of parse_coff_symbols taken last
    init_failed,        \* history: an initialization ended in failure, no cleanup() since
    after_cleanup,      \* history: cleanup() returned, no initialize() call since
    cleanup_seen,       \* history: cleanup() was called
    entered_unready     \* history: EnterCriticalSection ran before InitializeCriticalSection

globals == <<g_initialized, g_lock_initialized, cs_ready, lock_owner,
             g_symbol_table, g_symbol_count, g_runtime_base>>
locals == <<pc, call, lv, ret>>
history == <<parse_runs, last_exit, init_failed, after_cleanup, cleanup_seen,
             entered_unready>>
vars == <<globals, image, locals, history>>

Threads == 1..NumThreads

(***************************************************************************)
(* Inputs of the calls.                                                    *)
(***************************************************************************)
\* the address of "f" and of "g" in the loaded image
AddrF == Add64(RuntimeBase, U(0, 4096 + 16))
AddrG == Add64(RuntimeBase, U(16, 4096 + 16))
\* the instruction pointers asked for: 0, around AddrF, and around AddrG,
\* which lies 0x100000 above AddrF
IPs == { U(0, 0), Sub64(AddrF, U(0, 1)), AddrF, Add64(AddrF, U(0, 1)),
         Sub64(AddrG, U(0, 1)), AddrG, Add64(AddrG, U(15, 65535)), Add64(AddrG, U(16, 0)) }

\* cursor is "null" for a NULL pointer, "bad" for a cursor unw_get_reg
\* rejects, "ok" for a cursor whose IP register unw_get_reg reads; buf and
\* offp are TRUE for a non-NULL pointer
Args(cursor, buf, buf_len, offp) ==
    [cursor |-> cursor, buf |-> buf, buf_len |-> buf_len, offp |-> offp]
NoArgs == Args("null", FALSE, 0, FALSE)
\* the argument lists of unw_get_proc_name_windows
ResolveArgs ==
    { Args("ok", TRUE, 16, TRUE), Args("ok", TRUE, 2, TRUE), Args("ok", TRUE, 16, FALSE),
      Args("null", TRUE, 16, TRUE), Args("ok", FALSE, 16, TRUE), Args("ok", TRUE, 0, TRUE),
      Args("bad", TRUE, 16, TRUE) }
\* the calls of the concurrent specification
LifecycleArgs == { Args("ok", TRUE, 16, TRUE), Args("null", TRUE, 16, TRUE) }
LifecycleIPs == { AddrF, Add64(AddrG, U(16, 0)) }
ValidArgs(a) == a.cursor = "ok" /\ a.buf /\ a.buf_len > 0

\* the outcomes of GetModuleFileNameA, CreateFileA, CreateFileMappingA, MapViewOfFile
EnvOutcomes == {"ok", "path", "open", "mapping", "view"}

\* the value parse_coff_symbols returns on each of its exit paths
ParseCode(exit) == IF exit \in {"nosyms", "nofuncs", "done"} THEN 0 ELSE -1

NoCall == [op |-> "none", args |-> NoArgs, uninit |-> FALSE, after_fail |-> FALSE,
           after_cleanup |-> FALSE, parsed |-> FALSE]
\* ip is the value unw_get_reg read from the cursor (line 354), match the
\* index of the entry find_symbol returned, 0 for none
NoRet == [returned |-> FALSE, code |-> 0, ip |-> U(0, 0), match |-> 0, name |-> <<>>,
          wrote |-> FALSE, off |-> U(0, 0), wrote_off |-> FALSE]
\* visited is history: the raw entries the pass in progress has read as
\* COFF_SYMBOL records; outside is history: the parse has read bytes
\* outside the view
NoLocals == [i |-> 0, func_count |-> 0, idx |-> 0, result |-> 0, handles |-> {},
             visited |-> {}, outside |-> FALSE]

InCleanup(t) == pc[t] \in {"cl_check1", "cl_enter", "cl_body", "cl_leave"}

(***************************************************************************)
(* Initial states.                                                         *)
(***************************************************************************)
InitState ==
    /\ g_initialized = 0
    /\ g_lock_initialized = 0
    /\ cs_ready = FALSE
    /\ lock_owner = 0
    /\ g_symbol_table = NULL
    /\ g_symbol_count = 0
    /\ g_runtime_base = U(0, 0)
    /\ pc = [t \in Threads |-> "idle"]
    /\ call = [t \in Threads |-> NoCall]
    /\ lv = [t \in Threads |-> NoLocals]
    /\ ret = [t \in Threads |-> NoRet]
    /\ parse_runs = 0
    /\ last_exit = "none"
    /\ init_failed = FALSE
    /\ after_cleanup = FALSE
    /\ cleanup_seen = FALSE
    /\ entered_unready = FALSE

Init == InitState /\ image \in LifecycleImages

InitSeq == InitState /\ image \in SeqImages

(***************************************************************************)
(* The API calls.                                                          *)
(***************************************************************************)
Goto(t, label) == pc' = [pc EXCEPT ![t] = label]

NewCall(t, op, args) ==
    call' = [call EXCEPT ![t] = [op |-> op, args |-> args, uninit |-> g_initialized = 0,
                                 after_fail |-> init_failed, after_cleanup |-> after_cleanup,
                                 parsed |-> FALSE]]

\* the call of thread t returns to its caller
Return(t, code, ip, match, name, wrote, off, wrote_off) ==
    /\ ret' = [ret EXCEPT ![t] = [returned |-> TRUE, code |-> code, ip |-> ip,
                                  match |-> match, name |-> name, wrote |-> wrote,
                                  off |-> off, wrote_off |-> wrote_off]]
    /\ Goto(t, "idle")

ReturnCode(t, code) == Return(t, code, U(0, 0), 0, <<>>, FALSE, U(0, 0), FALSE)

\* unw_windows_sym_init()
CallInit(t) ==
    /\ pc[t] = "idle"
    /\ NewCall(t, "init", NoArgs)
    /\ ret' = [ret EXCEPT ![t] = NoRet]
    /\ Goto(t, "init_lock")
    /\ after_cleanup' = FALSE
    /\ UNCHANGED <<globals, image, lv, parse_runs, last_exit, init_failed, cleanup_seen,
                   entered_unready>>

\* CallResolve without the call of ensure_initialized
CallResolve_no_init(t, args) ==
    /\ pc[t] = "idle"
    /\ NewCall(t, "resolve", args)
    /\ IF args.cursor = "null" \/ ~args.buf \/ args.buf_len = 0
       THEN ReturnCode(t, UNW_EUNSPEC)
       ELSE ret' = [ret EXCEPT ![t] = NoRet] /\ Goto(t, "r_lookup")
    /\ UNCHANGED <<globals, image, lv, history>>

\* CallResolve without the argument check of lines 343-345
CallResolve_unchecked(t, args) ==
    /\ pc[t] = "idle"
    /\ NewCall(t, "resolve", args)
    /\ ret' = [ret EXCEPT ![t] = NoRet] /\ Goto(t, "init_lock")
    /\ UNCHANGED <<globals, image, lv, history>>

\* unw_get_proc_name_windows(cursor, buf, buf_len, offp): lines 343-350
CallResolve(t, args) ==
    /\ pc[t] = "idle"
    /\ NewCall(t, "resolve", args)
    /\ IF args.cursor = "null" \/ ~args.buf \/ args.buf_len = 0
       THEN ReturnCode(t, UNW_EUNSPEC)
       ELSE ret' = [ret EXCEPT ![t] = NoRet] /\ Goto(t, "init_lock")
    /\ UNCHANGED <<globals, image, lv, history>>

\* unw_windows_sym_cleanup()
CallCleanup(t) ==
    /\ pc[t] = "idle"
    /\ NewCall(t, "cleanup", NoArgs)
    /\ ret' = [ret EXCEPT ![t] = NoRet]
    /\ Goto(t, "cl_check1")
    /\ init_failed' = FALSE
    /\ cleanup_seen' = TRUE
    /\ UNCHANGED <<globals, image, lv, parse_runs, last_exit, after_cleanup, entered_unready>>

(***************************************************************************)
(* ensure_initialized and init_lock.                                       *)
(***************************************************************************)
\* init_lock, line 46: InterlockedCompareExchange(&g_lock_initialized, 1, 0)
init_lock(t) ==
    /\ pc[t] = "init_lock"
    /\ IF g_lock_initialized = 0
       THEN g_lock_initialized' = 1 /\ Goto(t, "init_cs")
       ELSE g_lock_initialized' = g_lock_initialized /\ Goto(t, "ei_check1")
    /\ UNCHANGED <<g_initialized, cs_ready, lock_owner, g_symbol_table, g_symbol_count,
                   g_runtime_base, image, call, lv, ret, history>>

\* init_lock, line 47
InitializeCriticalSection(t) ==
    /\ pc[t] = "init_cs"
    /\ cs_ready' = TRUE
    /\ lock_owner' = 0
    /\ Goto(t, "ei_check1")
    /\ UNCHANGED <<g_initialized, g_lock_initialized, g_symbol_table, g_symbol_count,
                   g_runtime_base, image, call, lv, ret, history>>

\* ensure_initialized returns code to unw_windows_sym_init, which returns
\* it, or to unw_get_proc_name_windows (lines 348-350)
EnsureReturns(t, code) ==
    IF call[t].op = "init" THEN ReturnCode(t, code)
    ELSE IF code # 0 THEN ReturnCode(t, UNW_EUNSPEC)
    ELSE ret' = ret /\ Goto(t, "r_lookup")

\* ei_check1 with the fast path returning the stored outcome of the parse
ei_check1_stored(t) ==
    /\ pc[t] = "ei_check1"
    /\ IF g_initialized # 0
       THEN EnsureReturns(t, ParseCode(last_exit))
       ELSE Goto(t, "ei_enter") /\ ret' = ret
    /\ UNCHANGED <<globals, image, call, lv, history>>

\* lines 275-277
ei_check1(t) ==
    /\ pc[t] = "ei_check1"
    /\ IF g_initialized # 0
       THEN EnsureReturns(t, 0)
       ELSE Goto(t, "ei_enter") /\ ret' = ret
    /\ UNCHANGED <<globals, image, call, lv, history>>

\* EnterCriticalSection(&g_sym_lock), lines 279 and 299. On a critical
\* section that InitializeCriticalSection has not set up yet, the call is
\* undefined: the thread may get in whoever is inside, or wait.
EnterCriticalSection(t) ==
    /\ pc[t] \in {"ei_enter", "cl_enter"}
    /\ cs_ready => lock_owner = 0
    /\ lock_owner' = t
    /\ entered_unready' = (entered_unready \/ ~cs_ready)
    /\ Goto(t, IF pc[t] = "ei_enter" THEN "ei_check2" ELSE "cl_body")
    /\ UNCHANGED <<g_initialized, g_lock_initialized, cs_ready, g_symbol_table,
                   g_symbol_count, g_runtime_base, image, call, lv, ret, parse_runs,
                   last_exit, init_failed, after_cleanup, cleanup_seen>>

\* lines 281-286: the second check, and the call of parse_coff_symbols
ei_check2(t) ==
    /\ pc[t] = "ei_check2"
    /\ IF g_initialized # 0
       THEN /\ lv' = [lv EXCEPT ![t].result = 0]
            /\ Goto(t, "ei_leave")
            /\ UNCHANGED <<call, parse_runs>>
       ELSE /\ Goto(t, "p_open")
            /\ call' = [call EXCEPT ![t].parsed = TRUE]
            /\ parse_runs' = Min(parse_runs + 1, MaxParses)
            /\ lv' = lv
    /\ UNCHANGED <<globals, image, ret, last_exit, init_failed, after_cleanup,
                   cleanup_seen, entered_unready>>

\* history: the initialization that thread t ends has failed, and no
\* cleanup() is in progress
Failed(t) == IF lv[t].result # 0 /\ ~\E u \in Threads : InCleanup(u) THEN TRUE
             ELSE init_failed

\* ei_setinit publishing the flag only when the parse succeeded
ei_setinit_on_success(t) ==
    /\ pc[t] = "ei_setinit"
    /\ g_initialized' = IF lv[t].result = 0 THEN 1 ELSE g_initialized
    /\ Goto(t, "ei_leave")
    /\ init_failed' = Failed(t)
    /\ UNCHANGED <<g_lock_initialized, cs_ready, lock_owner, g_symbol_table,
                   g_symbol_count, g_runtime_base, image, call, lv, ret, parse_runs,
                   last_exit, after_cleanup, cleanup_seen, entered_unready>>

\* line 287
ei_setinit(t) ==
    /\ pc[t] = "ei_setinit"
    /\ g_initialized' = 1
    /\ Goto(t, "ei_leave")
    /\ init_failed' = Failed(t)
    /\ UNCHANGED <<g_lock_initialized, cs_ready, lock_owner, g_symbol_table,
                   g_symbol_count, g_runtime_base, image, call, lv, ret, parse_runs,
                   last_exit, after_cleanup, cleanup_seen, entered_unready>>

\* LeaveCriticalSection by thread t. Leaving a critical section the thread
\* does not own (its ownership was wiped by InitializeCriticalSection) is
\* undefined: it may release the lock under its owner, or not.
Released(t) == IF lock_owner = t THEN {0} ELSE {0, lock_owner}

\* lines 282-283 and 289-290
ei_leave(t) ==
    /\ pc[t] = "ei_leave"
    /\ lock_owner' \in Released(t)
    /\ EnsureReturns(t, lv[t].result)
    /\ lv' = [lv EXCEPT ![t] = NoLocals]
    /\ UNCHANGED <<g_initialized, g_lock_initialized, cs_ready, g_symbol_table,
                   g_symbol_count, g_runtime_base, image, call, history>>

(***************************************************************************)
(* parse_coff_symbols.                                                     *)
(***************************************************************************)
\* the handles: the file (CreateFileA), the mapping (CreateFileMappingA)
\* and the view (MapViewOfFile)
AllHandles == {"file", "mapping", "view"}

\* what p_open has opened when the environment answers env, and what it
\* closes before it returns on a failure (lines 129-145)
Opened(env) == CASE env = "ok" -> AllHandles
                 [] env = "view" -> {"file", "mapping"}
                 [] env = "mapping" -> {"file"}
                 [] OTHER -> {}
Closed(env) == CASE env = "view" -> {"mapping", "file"}
                 [] env = "mapping" -> {"file"}
                 [] OTHER -> {}

\* a return statement of parse_coff_symbols, after the calls of
\* UnmapViewOfFile and CloseHandle that precede it have closed the handles
\* of the set closed
ParseReturns(t, code, exit, opened, closed) ==
    /\ lv' = [lv EXCEPT ![t].result = code, ![t].handles = (@ \cup opened) \ closed]
    /\ last_exit' = exit
    /\ Goto(t, "ei_setinit")

\* the process dies on an access violation
Crash(t) == pc' = [u \in Threads |-> "crashed"]


\* lines 116-145: locate, open and map the executable
p_open(t) ==
    /\ pc[t] = "p_open"
    /\ \E env \in EnvOutcomes :
         /\ g_runtime_base' = IF env = "path" THEN g_runtime_base ELSE RuntimeBase
         /\ IF env # "ok"
            THEN ParseReturns(t, -1, IF env = "path" THEN "path" ELSE "access",
                              Opened(env), Closed(env))
            ELSE /\ lv' = [lv EXCEPT ![t].handles = Opened(env)]
                 /\ Goto(t, "p_headers")
                 /\ last_exit' = last_exit
    /\ UNCHANGED <<g_initialized, g_lock_initialized, cs_ready, lock_owner, g_symbol_table,
                   g_symbol_count, image, call, ret, parse_runs, init_failed,
                   after_cleanup, cleanup_seen, entered_unready>>

\* p_headers taking a missing symbol table for an error
p_headers_strict(t) ==
    /\ pc[t] = "p_headers"
    /\ IF image.e_magic # IMAGE_DOS_SIGNATURE THEN ParseReturns(t, -1, "dos", {}, AllHandles)
       ELSE IF image.Signature # IMAGE_NT_SIGNATURE THEN ParseReturns(t, -1, "nt", {}, AllHandles)
       ELSE IF image.PointerToSymbolTable = 0 \/ image.NumberOfSymbols = 0
       THEN ParseReturns(t, -1, "nosyms", {}, AllHandles)
       ELSE /\ lv' = [lv EXCEPT ![t].i = 0, ![t].func_count = 0, ![t].visited = {}]
            /\ Goto(t, "p_count")
            /\ last_exit' = last_exit
    /\ UNCHANGED <<globals, image, call, ret, parse_runs, init_failed, after_cleanup,
                   cleanup_seen, entered_unready>>

\* lines 147-188: the signatures, then the symbol table offset and count
p_headers(t) ==
    /\ pc[t] = "p_headers"
    /\ IF image.e_magic # IMAGE_DOS_SIGNATURE THEN ParseReturns(t, -1, "dos", {}, AllHandles)
       ELSE IF image.Signature # IMAGE_NT_SIGNATURE THEN ParseReturns(t, -1, "nt", {}, AllHandles)
       ELSE IF image.PointerToSymbolTable = 0 \/ image.NumberOfSymbols = 0
       THEN ParseReturns(t, 0, "nosyms", {}, AllHandles)
       ELSE /\ lv' = [lv EXCEPT ![t].i = 0, ![t].func_count = 0, ![t].visited = {}]
            /\ Goto(t, "p_count")
            /\ last_exit' = last_exit
    /\ UNCHANGED <<globals, image, call, ret, parse_runs, init_failed, after_cleanup,
                   cleanup_seen, entered_unready>>

\* lines 192-207: one iteration of the counting loop, or its exit
p_count(t) ==
    /\ pc[t] = "p_count"
    /\ IF lv[t].i < image.NumberOfSymbols
       THEN LET sym == image.symbols[lv[t].i + 1]
            IN \E fault \in ReadFaults(image, lv[t].i) :
                 IF fault THEN Crash(t) /\ UNCHANGED <<lv, last_exit>>
                 ELSE /\ lv' = [lv EXCEPT
                            ![t].func_count = IF is_text_symbol(sym, image.sections, image.NumberOfSections)
                                              THEN @ + 1 ELSE @,
                            ![t].i = @ + sym.NumberOfAuxSymbols + 1,
                            ![t].visited = @ \cup {lv[t].i},
                            ![t].outside = @ \/ ~SymInView(image, lv[t].i)]
                      /\ Goto(t, "p_count")
                      /\ last_exit' = last_exit
       ELSE IF lv[t].func_count = 0 THEN ParseReturns(t, 0, "nofuncs", {}, AllHandles)
       ELSE /\ Goto(t, "p_alloc")
            /\ UNCHANGED <<lv, last_exit>>
    /\ UNCHANGED <<globals, image, call, ret, parse_runs, init_failed, after_cleanup,
                   cleanup_seen, entered_unready>>

\* lines 210-219: malloc, which may fail
p_alloc(t) ==
    /\ pc[t] = "p_alloc"
    /\ \E ok \in BOOLEAN :
         IF ok
         THEN /\ g_symbol_table' = [k \in 1..lv[t].func_count |-> Unfilled]
              /\ lv' = [lv EXCEPT ![t].i = 0, ![t].idx = 0, ![t].visited = {}]
              /\ Goto(t, "p_fill")
              /\ last_exit' = last_exit
         ELSE /\ g_symbol_table' = NULL
              /\ ParseReturns(t, -1, "malloc", {}, AllHandles)
    /\ UNCHANGED <<g_initialized, g_lock_initialized, cs_ready, lock_owner, g_symbol_count,
                   g_runtime_base, image, call, ret, parse_runs, init_failed,
                   after_cleanup, cleanup_seen, entered_unready>>

\* fill_skip without i += sym->NumberOfAuxSymbols
fill_skip_no_aux(i, sym) == i + 1

\* lines 223-226 and 240-244: the index a record that is not stored
\* advances to
fill_skip(i, sym) == i + sym.NumberOfAuxSymbols + 1

\* lines 220-259: one iteration of the fill loop, or its exit
p_fill(t) ==
    /\ pc[t] = "p_fill"
    /\ IF lv[t].i < image.NumberOfSymbols /\ lv[t].idx < lv[t].func_count
       THEN LET sym == image.symbols[lv[t].i + 1]
                seen == lv[t].visited \cup {lv[t].i}
                out == lv[t].outside \/ ~SymInView(image, lv[t].i)
            IN \E fault \in ReadFaults(image, lv[t].i) :
               IF fault THEN Crash(t) /\ UNCHANGED <<lv, g_symbol_table, g_symbol_count>>
               ELSE IF ~is_text_symbol(sym, image.sections, image.NumberOfSections)
                  \/ (symbol_name(sym, image.string_table) # <<>>
                      /\ symbol_name(sym, image.string_table)[1] = DOT)
               THEN /\ lv' = [lv EXCEPT ![t].i = fill_skip(lv[t].i, sym), ![t].visited = seen,
                                        ![t].outside = out]
                    /\ Goto(t, "p_fill")
                    /\ UNCHANGED <<g_symbol_table, g_symbol_count>>
               ELSE IF lv[t].idx >= Len(g_symbol_table)
               THEN Crash(t) /\ UNCHANGED <<lv, g_symbol_table, g_symbol_count>>
               ELSE /\ g_symbol_table' = [g_symbol_table EXCEPT ![lv[t].idx + 1] =
                           symbol_entry(sym, image.sections, image.string_table, g_runtime_base)]
                    /\ lv' = [lv EXCEPT ![t].idx = @ + 1,
                                        ![t].i = @ + sym.NumberOfAuxSymbols + 1,
                                        ![t].visited = seen,
                                        ![t].outside = out]
                    /\ Goto(t, "p_fill")
                    /\ g_symbol_count' = g_symbol_count
       ELSE /\ g_symbol_count' = lv[t].idx
            /\ Goto(t, "p_sort")
            /\ UNCHANGED <<lv, g_symbol_table>>
    /\ UNCHANGED <<g_initialized, g_lock_initialized, cs_ready, lock_owner, g_runtime_base,
                   image, call, ret, history>>

\* line 262
p_sort(t) ==
    /\ pc[t] = "p_sort"
    /\ IF g_symbol_count > Len(g_symbol_table)
       THEN Crash(t) /\ UNCHANGED g_symbol_table
       ELSE g_symbol_table' \in qsort(g_symbol_table, g_symbol_count) /\ Goto(t, "p_close")
    /\ UNCHANGED <<g_initialized, g_lock_initialized, cs_ready, lock_owner, g_symbol_count,
                   g_runtime_base, image, call, lv, ret, history>>

\* lines 264-268
p_close(t) ==
    /\ pc[t] = "p_close"
    /\ ParseReturns(t, 0, "done", {}, AllHandles)
    /\ UNCHANGED <<globals, image, call, ret, parse_runs, init_failed, after_cleanup,
                   cleanup_seen, entered_unready>>

(***************************************************************************)
(* unw_get_proc_name_windows after ensure_initialized, lines 352-381.      *)
(***************************************************************************)
\* resolve_ip with the name cut at buf_len instead of buf_len - 1
resolve_ip_cut_at_buf_len(t, ip) ==
    LET a == call[t].args
        sym == find_symbol(g_symbol_table, g_symbol_count, ip)
    IN IF ip = U(0, 0) THEN Return(t, UNW_ENOINFO, ip, 0, <<>>, FALSE, U(0, 0), FALSE)
       ELSE IF sym = 0 THEN Return(t, UNW_ENOINFO, ip, 0, <<>>, FALSE, U(0, 0), FALSE)
       ELSE LET name == g_symbol_table[sym].name
                name_len == IF Len(name) >= a.buf_len THEN a.buf_len ELSE Len(name)
            IN Return(t, UNW_ESUCCESS, ip, sym, SubSeq(name, 1, name_len), TRUE,
                      IF a.offp THEN Sub64(ip, g_symbol_table[sym].address) ELSE U(0, 0),
                      a.offp)

\* what the call returns once unw_get_reg has stored ip
resolve_ip(t, ip) ==
    LET a == call[t].args
        sym == find_symbol(g_symbol_table, g_symbol_count, ip)
    IN IF ip = U(0, 0) THEN Return(t, UNW_ENOINFO, ip, 0, <<>>, FALSE, U(0, 0), FALSE)
       ELSE IF sym = 0 THEN Return(t, UNW_ENOINFO, ip, 0, <<>>, FALSE, U(0, 0), FALSE)
       ELSE LET name == g_symbol_table[sym].name
                name_len == IF Len(name) >= a.buf_len THEN a.buf_len - 1 ELSE Len(name)
            IN Return(t, UNW_ESUCCESS, ip, sym, SubSeq(name, 1, name_len), TRUE,
                      IF a.offp THEN Sub64(ip, g_symbol_table[sym].address) ELSE U(0, 0),
                      a.offp)

\* lines 352-381; ips are the values the IP register may hold
r_lookup(t, ips) ==
    /\ pc[t] = "r_lookup"
    /\ IF call[t].args.cursor # "ok" THEN ReturnCode(t, UNW_EUNSPEC)
       ELSE \E ip \in ips : resolve_ip(t, ip)
    /\ UNCHANGED <<globals, image, call, lv, history>>

(***************************************************************************)
(* unw_windows_sym_cleanup.                                                *)
(***************************************************************************)
CleanupReturns(t) ==
    /\ ReturnCode(t, 0)
    /\ after_cleanup' = TRUE

\* line 298
cl_check1(t) ==
    /\ pc[t] = "cl_check1"
    /\ IF g_initialized # 0
       THEN Goto(t, "cl_enter") /\ UNCHANGED <<ret, after_cleanup>>
       ELSE CleanupReturns(t)
    /\ UNCHANGED <<globals, image, call, lv, parse_runs, last_exit, init_failed,
                   cleanup_seen, entered_unready>>

\* cl_body without line 305
cl_body_keeps_count(t) ==
    /\ pc[t] = "cl_body"
    /\ IF g_initialized # 0
       THEN /\ g_symbol_table' = NULL
            /\ g_symbol_count' = g_symbol_count
            /\ g_initialized' = 0
            /\ parse_runs' = 0
            /\ last_exit' = "none"
       ELSE UNCHANGED <<g_symbol_table, g_symbol_count, g_initialized, parse_runs, last_exit>>
    /\ Goto(t, "cl_leave")
    /\ UNCHANGED <<g_lock_initialized, cs_ready, lock_owner, g_runtime_base, image, call,
                   lv, ret, init_failed, after_cleanup, cleanup_seen, entered_unready>>

\* cl_body without line 306
cl_body_keeps_flag(t) ==
    /\ pc[t] = "cl_body"
    /\ IF g_initialized # 0
       THEN /\ g_symbol_table' = NULL
            /\ g_symbol_count' = 0
            /\ g_initialized' = g_initialized
            /\ parse_runs' = 0
            /\ last_exit' = "none"
       ELSE UNCHANGED <<g_symbol_table, g_symbol_count, g_initialized, parse_runs, last_exit>>
    /\ Goto(t, "cl_leave")
    /\ UNCHANGED <<g_lock_initialized, cs_ready, lock_owner, g_runtime_base, image, call,
                   lv, ret, init_failed, after_cleanup, cleanup_seen, entered_unready>>

\* lines 300-307
cl_body(t) ==
    /\ pc[t] = "cl_body"
    /\ IF g_initialized # 0
       THEN /\ g_symbol_table' = NULL
            /\ g_symbol_count' = 0
            /\ g_initialized' = 0
            /\ parse_runs' = 0
            /\ last_exit' = "none"
       ELSE UNCHANGED <<g_symbol_table, g_symbol_count, g_initialized, parse_runs, last_exit>>
    /\ Goto(t, "cl_leave")
    /\ UNCHANGED <<g_lock_initialized, cs_ready, lock_owner, g_runtime_base, image, call,
                   lv, ret, init_failed, after_cleanup, cleanup_seen, entered_unready>>

\* lines 308-310
cl_leave(t) ==
    /\ pc[t] = "cl_leave"
    /\ lock_owner' \in Released(t)
    /\ CleanupReturns(t)
    /\ UNCHANGED <<g_initialized, g_lock_initialized, cs_ready, g_symbol_table,
                   g_symbol_count, g_runtime_base, image, call, lv, parse_runs, last_exit,
                   init_failed, cleanup_seen, entered_unready>>

(***************************************************************************)
(* Specifications.                                                         *)
(***************************************************************************)
\* a step of thread t, whose callers pass the argument lists arglists and
\* ask about the instruction pointers ips
Step(t, arglists, ips) ==
    \/ CallInit(t)
    \/ \E args \in arglists : CallResolve(t, args)
    \/ CallCleanup(t)
    \/ init_lock(t)
    \/ InitializeCriticalSection(t)
    \/ ei_check1(t)
    \/ EnterCriticalSection(t)
    \/ ei_check2(t)
    \/ p_open(t)
    \/ p_headers(t)
    \/ p_count(t)
    \/ p_alloc(t)
    \/ p_fill(t)
    \/ p_sort(t)
    \/ p_close(t)
    \/ ei_setinit(t)
    \/ ei_leave(t)
    \/ r_lookup(t, ips)
    \/ cl_check1(t)
    \/ cl_body(t)
    \/ cl_leave(t)

\* any number of threads call the API concurrently
Next == \E t \in Threads : Step(t, LifecycleArgs, LifecycleIPs)

Spec == Init /\ [][Next]_vars

\* one thread calls the API, one call after the other
NextSeq == Step(1, ResolveArgs, IPs)

SpecSeq == InitSeq /\ [][NextSeq]_vars

(***************************************************************************)
(* Vocabulary of the claims.                                               *)
(***************************************************************************)
\* thread t is back from a call of op
Returned(t, op) == pc[t] = "idle" /\ ret[t].returned /\ call[t].op = op

(***************************************************************************)
(* C1: when threads call initialize() concurrently from the Uninitialized  *)
(* state and no cleanup() runs, parse_coff_symbols is executed exactly     *)
(* once: never twice, and once by the time an initialize() has returned.   *)
(***************************************************************************)
C1_ParseExactlyOnce ==
    (~cleanup_seen /\ \A t \in Threads : call[t].op \in {"none", "init"}) =>
        /\ parse_runs <= 1
        /\ \A t \in Threads : Returned(t, "init") => parse_runs = 1

(***************************************************************************)
(* C2: between two cleanups every initialize() call returns the value      *)
(* that the call which executed parse_coff_symbols got from it, on         *)
(* success and on failure.                                                 *)
(***************************************************************************)
C2_SameOutcome ==
    \A t \in Threads :
        (Returned(t, "init") /\ last_exit # "none") => ret[t].code = ParseCode(last_exit)

\* the buffer unw_get_proc_name_windows filled holds a prefix of the name
\* of the entry its return records
NameOfMatch(t) ==
    /\ ret[t].match \in 1..g_symbol_count
    /\ g_symbol_table # NULL
    /\ g_symbol_table[ret[t].match].filled
    /\ ret[t].wrote
    /\ ret[t].name = SubSeq(g_symbol_table[ret[t].match].name, 1, Len(ret[t].name))

(***************************************************************************)
(* C3 as claimed: a resolve() made after cleanup() and before any explicit *)
(* initialize() never returns a symbol name.                               *)
(***************************************************************************)
C3_FailsClosed ==
    \A t \in Threads :
        (Returned(t, "resolve") /\ call[t].after_cleanup) => ret[t].code # UNW_ESUCCESS

(***************************************************************************)
(* C3 as amended: a resolve() with valid arguments made after cleanup()    *)
(* and before any explicit initialize() initializes again by itself: when  *)
(* it returns, the state is initialized, parse_coff_symbols has run        *)
(* exactly once since the cleanup, and a name it returns is the name of    *)
(* an entry of the table that this parse built.                            *)
(***************************************************************************)
C3_ReinitializesAfterCleanup ==
    \A t \in Threads :
        (Returned(t, "resolve") /\ call[t].after_cleanup /\ ValidArgs(call[t].args)) =>
            /\ g_initialized = 1
            /\ parse_runs = 1
            /\ ret[t].code = UNW_ESUCCESS => (last_exit = "done" /\ NameOfMatch(t))

C3_Witness ==
    \E t \in Threads :
        /\ Returned(t, "resolve") /\ call[t].after_cleanup /\ call[t].uninit
        /\ call[t].parsed /\ ret[t].code = UNW_ESUCCESS

(***************************************************************************)
(* C4: once an initialization has failed, no initialize() or resolve()     *)
(* call enters parse_coff_symbols again until cleanup() is called.         *)
(***************************************************************************)
C4_NoRetryAfterFailure ==
    [][init_failed => \A t \in Threads : (pc'[t] = "p_open" => pc[t] = "p_open")]_vars

C4_Witness ==
    /\ init_failed
    /\ \E t \in Threads :
         /\ pc[t] = "idle" /\ ret[t].returned /\ call[t].op \in {"init", "resolve"}
         /\ call[t].after_fail /\ ~call[t].parsed /\ ValidArgs(call[t].args)

(***************************************************************************)
(* C5: after an initialization that failed, every later resolve() with a   *)
(* valid cursor and buffer returns UNW_ENOINFO, until cleanup().           *)
(***************************************************************************)
C5_NoInfoAfterFailure ==
    \A t \in Threads :
        (Returned(t, "resolve") /\ call[t].after_fail /\ ValidArgs(call[t].args)) =>
            ret[t].code = UNW_ENOINFO

C5_Witness ==
    \E t \in Threads :
        /\ Returned(t, "resolve") /\ call[t].after_fail /\ ValidArgs(call[t].args)
        /\ ret[t].code = UNW_ENOINFO /\ ret[t].ip = AddrF

(***************************************************************************)
(* C6: a resolve() with valid arguments called in the Uninitialized state  *)
(* runs the initialization itself before the lookup: on return the state   *)
(* is initialized, this call has executed parse_coff_symbols, and the      *)
(* answer is the one find_symbol gives on the table that parse built       *)
(* (UNW_EUNSPEC if the parse failed).                                      *)
(***************************************************************************)
C6_LazyInitialization ==
    \A t \in Threads :
        (Returned(t, "resolve") /\ call[t].uninit /\ ValidArgs(call[t].args)) =>
            /\ call[t].parsed
            /\ g_initialized = 1
            /\ parse_runs = 1
            /\ IF ParseCode(last_exit) # 0 THEN ret[t].code = UNW_EUNSPEC
               ELSE /\ ret[t].match = find_symbol(g_symbol_table, g_symbol_count, ret[t].ip)
                    /\ ret[t].code = IF ret[t].match = 0 \/ ret[t].ip = U(0, 0)
                                     THEN UNW_ENOINFO ELSE UNW_ESUCCESS
                    /\ ret[t].code = UNW_ESUCCESS => NameOfMatch(t)

C6_Witness ==
    \E t \in Threads :
        /\ Returned(t, "resolve") /\ call[t].uninit /\ call[t].parsed
        /\ ~cleanup_seen /\ ret[t].code = UNW_ESUCCESS /\ ret[t].match = 2

(***************************************************************************)
(* C7: for an image whose symbol-table offset or symbol count is zero,     *)
(* initialize() returns success with a table of zero entries, and every    *)
(* resolve() with valid arguments returns UNW_ENOINFO.                     *)
(***************************************************************************)
NoSymbols(img) ==
    /\ img.e_magic = IMAGE_DOS_SIGNATURE
    /\ img.Signature = IMAGE_NT_SIGNATURE
    /\ img.PointerToSymbolTable = 0 \/ img.NumberOfSymbols = 0

C7_EmptySymbolTable ==
    NoSymbols(image) =>
        /\ last_exit \in {"none", "path", "access", "nosyms"}
        /\ last_exit = "nosyms" =>
             /\ g_symbol_count = 0
             /\ g_symbol_table = NULL
             /\ \A t \in Threads :
                  /\ Returned(t, "init") => ret[t].code = 0
                  /\ (Returned(t, "resolve") /\ ValidArgs(call[t].args)) =>
                         ret[t].code = UNW_ENOINFO

C7_Witness ==
    /\ NoSymbols(image) /\ image.NumberOfSymbols # 0 /\ last_exit = "nosyms"
    /\ \E t \in Threads :
         /\ Returned(t, "resolve") /\ ValidArgs(call[t].args) /\ ~call[t].parsed
         /\ ret[t].code = UNW_ENOINFO /\ ret[t].ip = AddrF

(***************************************************************************)
(* Reference floor search: the greatest index of tab[1..n] whose address   *)
(* is at most q, 0 if there is none.                                       *)
(***************************************************************************)
FloorIdx(tab, n, q) ==
    LET below == {k \in 1..n : LE64(tab[k].address, q)}
    IN IF below = {} THEN 0 ELSE CHOOSE k \in below : \A j \in below : j <= k

\* thread t is back from a resolve() that got as far as the lookup
LookedUp(t) ==
    Returned(t, "resolve") /\ ValidArgs(call[t].args) /\ ret[t].code # UNW_EUNSPEC

(***************************************************************************)
(* C8: with the table sorted by address, a query q whose floor entry       *)
(* (greatest address <= q) lies less than the proximity threshold below q  *)
(* is answered with that entry's name and the offset q - address, offset 0 *)
(* at the exact address; every other query is a miss. resolve() agrees     *)
(* with the reference floor search on every table and query.               *)
(***************************************************************************)
C8_FloorSearch ==
    \A t \in Threads :
        LookedUp(t) =>
            LET q == ret[t].ip
                fl == FloorIdx(g_symbol_table, g_symbol_count, q)
                hit == fl # 0 /\ LT64(Sub64(q, g_symbol_table[fl].address), PROXIMITY)
            IN IF hit
               THEN /\ ret[t].code = UNW_ESUCCESS
                    /\ ret[t].match = fl
                    /\ NameOfMatch(t)
                    /\ Len(g_symbol_table[fl].name) < call[t].args.buf_len
                           => ret[t].name = g_symbol_table[fl].name
                    /\ call[t].args.offp
                           => (ret[t].wrote_off
                               /\ ret[t].off = Sub64(q, g_symbol_table[fl].address))
               ELSE ret[t].code = UNW_ENOINFO

C8_Witness ==
    \E t \in Threads :
        /\ LookedUp(t) /\ ret[t].code = UNW_ESUCCESS /\ ret[t].wrote_off
        /\ ret[t].match < g_symbol_count
        /\ ret[t].off = U(0, 1)
        /\ LT64(ret[t].ip, g_symbol_table[ret[t].match + 1].address)

(***************************************************************************)
(* C9: a floor match is accepted only within the proximity threshold       *)
(* 0x100000: a successful resolve() reports an offset no larger than the   *)
(* threshold, and a query more than the threshold above its floor entry    *)
(* (past the last symbol, or past any symbol with no closer one below the  *)
(* query) is a miss.                                                       *)
(***************************************************************************)
C9_ProximityThreshold ==
    \A t \in Threads :
        LookedUp(t) =>
            LET q == ret[t].ip
                fl == FloorIdx(g_symbol_table, g_symbol_count, q)
            IN /\ ret[t].code = UNW_ESUCCESS =>
                    /\ ret[t].match \in 1..g_symbol_count
                    /\ LE64(Sub64(q, g_symbol_table[ret[t].match].address), PROXIMITY)
                    /\ ret[t].wrote_off => LE64(ret[t].off, PROXIMITY)
               /\ (fl # 0 /\ LT64(PROXIMITY, Sub64(q, g_symbol_table[fl].address)))
                      => ret[t].code = UNW_ENOINFO

C9_Witness ==
    \E t \in Threads :
        /\ LookedUp(t) /\ ret[t].code = UNW_ENOINFO
        /\ g_symbol_count >= 1
        /\ LE64(g_symbol_table[g_symbol_count].address, ret[t].ip)
        /\ LT64(PROXIMITY, Sub64(ret[t].ip, g_symbol_table[g_symbol_count].address))

(***************************************************************************)
(* The primary records of a raw symbol array: entry 0, and every entry     *)
(* that lies 1 + aux_count after a primary record. The other entries are   *)
(* auxiliary records.                                                      *)
(***************************************************************************)
RECURSIVE IsPrimary(_, _)
IsPrimary(syms, j) ==
    \/ j = 0
    \/ \E p \in 0..(j - 1) :
           IsPrimary(syms, p) /\ p + 1 + syms[p + 1].NumberOfAuxSymbols = j

Primaries(img) == {j \in 0..(img.NumberOfSymbols - 1) : IsPrimary(img.symbols, j)}

\* the record is one the fill pass stores
Stored(img, sym) ==
    /\ is_text_symbol(sym, img.sections, img.NumberOfSections)
    /\ ~(symbol_name(sym, img.string_table) # <<>>
         /\ symbol_name(sym, img.string_table)[1] = DOT)

RECURSIVE PrimaryNames(_, _)
\* the names of the stored primary records at index j and above, in order
PrimaryNames(img, j) ==
    IF j >= img.NumberOfSymbols THEN <<>>
    ELSE (IF IsPrimary(img.symbols, j) /\ Stored(img, img.symbols[j + 1])
          THEN <<strncpy(symbol_name(img.symbols[j + 1], img.string_table), NAME_MAX)>>
          ELSE <<>>) \o PrimaryNames(img, j + 1)

(***************************************************************************)
(* C10: in the counting pass and in the fill pass a primary record with    *)
(* aux_count = k makes the walk skip exactly the k entries after it,       *)
(* whether it qualifies or not: the entries read as symbols are exactly    *)
(* the primary records below the index, the index stands on a primary      *)
(* record or past the end, and the names indexed are those of the stored   *)
(* primary records, in order.                                              *)
(***************************************************************************)
C10_AuxRecordsSkipped ==
    \A t \in Threads :
        /\ pc[t] \in {"p_count", "p_fill"} =>
               /\ lv[t].visited = {p \in Primaries(image) : p < lv[t].i}
               /\ lv[t].i < image.NumberOfSymbols => IsPrimary(image.symbols, lv[t].i)
        /\ pc[t] = "p_sort" =>
               [k \in 1..g_symbol_count |-> g_symbol_table[k].name] = PrimaryNames(image, 0)

C10_Witness ==
    \E t \in Threads :
        /\ pc[t] = "p_sort" /\ g_symbol_count >= 1
        /\ \E p \in Primaries(image) :
               /\ ~Stored(image, image.symbols[p + 1])
               /\ image.symbols[p + 1].NumberOfAuxSymbols > 0
               /\ p + 1 < image.NumberOfSymbols
               /\ Stored(image, image.symbols[p + 2])

(***************************************************************************)
(* C11: cleanup() is idempotent and resets the lifecycle. Whatever state   *)
(* it is called in, when it returns the table is NULL, the entry count is  *)
(* 0 and the state is Uninitialized; a cleanup() called in that state      *)
(* changes none of them; and an initialize() called in that state          *)
(* executes parse_coff_symbols again.                                      *)
(***************************************************************************)
C11_CleanupResets ==
    [][\A t \in Threads :
         /\ (InCleanup(t) /\ pc'[t] = "idle") =>
                (g_symbol_table' = NULL /\ g_symbol_count' = 0 /\ g_initialized' = 0)
         /\ (InCleanup(t) /\ call[t].uninit) =>
                UNCHANGED <<g_symbol_table, g_symbol_count, g_initialized, lock_owner>>
         /\ (call[t].op = "init" /\ call[t].uninit /\ call[t].after_cleanup
             /\ pc[t] # "idle" /\ pc'[t] = "idle") => call[t].parsed]_vars

C11_Witness ==
    \E t \in Threads :
        /\ Returned(t, "cleanup") /\ call[t].uninit /\ call[t].after_cleanup
        /\ g_symbol_table = NULL /\ g_symbol_count = 0 /\ g_initialized = 0
        /\ image.NumberOfSymbols = 2

(***************************************************************************)
(* C12: on every exit path of parse_coff_symbols the view, the mapping     *)
(* and the file handle opened so far are released before the initialized   *)
(* flag is published: a thread that is back from the parse holds none of   *)
(* them, and in no state is the flag set while one of them is open.        *)
(***************************************************************************)
C12_HandlesReleased ==
    \A t \in Threads :
        /\ pc[t] \in {"ei_setinit", "ei_leave"} => lv[t].handles = {}
        /\ g_initialized # 0 => lv[t].handles = {}

(***************************************************************************)
(* C13: every offset and length the headers declare is validated against   *)
(* the size of the mapped file before use, so the parser never reads a     *)
(* byte outside the view, whatever the headers hold, and the process is    *)
(* never terminated by such a read.                                        *)
(***************************************************************************)
C13_ReadsInsideView ==
    \A t \in Threads : pc[t] # "crashed" /\ ~lv[t].outside

RECURSIVE PrimaryRecords(_, _)
\* the stored primary records at index j and above, in order
PrimaryRecords(img, j) ==
    IF j >= img.NumberOfSymbols THEN <<>>
    ELSE (IF IsPrimary(img.symbols, j) /\ Stored(img, img.symbols[j + 1])
          THEN <<img.symbols[j + 1]>> ELSE <<>>) \o PrimaryRecords(img, j + 1)

\* runtime_load_base + section.virtual_address + symbol.value, exactly
ExactAddress(img, base, sym) ==
    Add64(base, Add64(img.sections[sym.SectionNumber].VirtualAddress, sym.Value))

(***************************************************************************)
(* C14: the address of every indexed entry is the exact 64-bit sum         *)
(* runtime_load_base + section.virtual_address + symbol.value of its       *)
(* record, also when virtual_address + value exceeds 2^32 - 1. Stated on   *)
(* the table as the fill pass leaves it, entry k built from the k-th       *)
(* stored primary record.                                                  *)
(***************************************************************************)
C14_ExactAddress ==
    \A t \in Threads :
        pc[t] = "p_sort" =>
            LET recs == PrimaryRecords(image, 0)
            IN \A k \in 1..g_symbol_count :
                 /\ k <= Len(recs)
                 /\ g_symbol_table[k].address = ExactAddress(image, g_runtime_base, recs[k])

\* the first character of the record's name, 0 for the empty name
FirstChar(img, sym) ==
    IF \A k \in 1..4 : sym.ShortName[k] = 0
    THEN img.string_table[sym.ShortName[5] + 1]
    ELSE sym.ShortName[1]

\* the four conditions of the specification on a primary record
Qualifies(img, sym) ==
    /\ sym.SectionNumber \in 1..img.NumberOfSections
    /\ img.sections[sym.SectionNumber].Characteristics \cap {"CNT_CODE", "MEM_EXECUTE"} # {}
    /\ \/ (sym.Type \div 16) % 4 = 2
       \/ sym.StorageClass \in {2, 3}
    /\ FirstChar(img, sym) # 46

RECURSIVE QualifyingRecords(_, _)
\* the qualifying primary records at index j and above, in order
QualifyingRecords(img, j) ==
    IF j >= img.NumberOfSymbols THEN <<>>
    ELSE (IF IsPrimary(img.symbols, j) /\ Qualifies(img, img.symbols[j + 1])
          THEN <<img.symbols[j + 1]>> ELSE <<>>) \o QualifyingRecords(img, j + 1)

(***************************************************************************)
(* C15: a primary record is indexed if and only if its section number is   *)
(* in 1..NumberOfSections, that section is executable, its derived type    *)
(* marks a function or its storage class is external (2) or static (3),    *)
(* and its name does not start with '.': the table the fill pass leaves    *)
(* holds one entry for each such record, in order, and nothing else.       *)
(***************************************************************************)
C15_IndexedIffQualifies ==
    \A t \in Threads :
        pc[t] = "p_sort" =>
            LET recs == QualifyingRecords(image, 0)
            IN /\ g_symbol_count = Len(recs)
               /\ \A k \in 1..g_symbol_count :
                    g_symbol_table[k] =
                        symbol_entry(recs[k], image.sections, image.string_table, g_runtime_base)

C15_Witness ==
    \E t \in Threads :
        /\ pc[t] = "p_sort" /\ g_symbol_count = 2 /\ image.NumberOfSymbols = 2
        /\ image.symbols[2].Type = 0 /\ image.symbols[2].StorageClass = CLASS_STATIC
        /\ image.symbols[2] \in FilterRecords

(***************************************************************************)
(* C16: the two passes size an exact allocation: the number of symbols     *)
(* the counting pass counted, which is the number of entries allocated,    *)
(* equals the number of entries the fill pass filled and published as      *)
(* g_symbol_count.                                                         *)
(***************************************************************************)
C16_ExactAllocation ==
    \A t \in Threads :
        pc[t] \in {"p_sort", "p_close"} =>
            /\ lv[t].func_count = g_symbol_count
            /\ Len(g_symbol_table) = g_symbol_count
            /\ \A k \in 1..Len(g_symbol_table) : g_symbol_table[k].filled

\* the first n entries of tab are in ascending order of address
Sorted(tab, n) == \A k \in 1..(n - 1) : LE64(tab[k].address, tab[k + 1].address)

(***************************************************************************)
(* C17: in every reachable state in which the initialized flag is set and  *)
(* the table is non-empty, the table is sorted ascending by address.       *)
(***************************************************************************)
C17_SortedWhenReady ==
    (g_initialized # 0 /\ g_symbol_table # NULL /\ g_symbol_count > 0) =>
        /\ g_symbol_count <= Len(g_symbol_table)
        /\ Sorted(g_symbol_table, g_symbol_count)

(***************************************************************************)
(* C18: once the table is published (the initialized flag is set), it is   *)
(* immutable until cleanup(): while no cleanup() is in progress, no step   *)
(* of a resolve() or initialize() call changes the table contents, the     *)
(* entry count or the initialization state.                                *)
(***************************************************************************)
C18_ImmutableWhenReady ==
    [][(g_initialized # 0 /\ \A t \in Threads : ~InCleanup(t)) =>
           UNCHANGED <<g_symbol_table, g_symbol_count, g_initialized>>]_vars

\* thread u is performing the initialization: it is inside
\* parse_coff_symbols, or back from it and about to publish the flag
Initializing(u) ==
    pc[u] \in {"p_open", "p_headers", "p_count", "p_alloc", "p_fill", "p_sort", "p_close",
               "ei_setinit"}

(***************************************************************************)
(* C19: a thread that calls initialize() or resolve() while another thread *)
(* performs the initialization blocks until that initialization has        *)
(* finished: as long as no cleanup() has been called, no such call does    *)
(* its lookup or returns while another thread is still initializing.       *)
(* (The safety half of the claim; the other half is that every such call   *)
(* eventually returns under fair scheduling.)                              *)
(***************************************************************************)
C19_BlocksWhileInitializing ==
    [][\A t \in Threads :
         (/\ ~cleanup_seen
          /\ call[t].op \in {"init", "resolve"}
          /\ pc[t] \in {"ei_check1", "ei_leave", "r_lookup"}
          /\ pc'[t] \in {"idle", "r_lookup"} /\ pc'[t] # pc[t])
         => ~\E u \in Threads \ {t} : Initializing(u)]_vars

\* the length of the C string that starts at b[start], cut at max
\* characters: the characters before the first NUL (or the end of b)
CStrLen(b, start, max) ==
    CHOOSE l \in 0..max :
        /\ \A k \in 0..(l - 1) : start + k <= Len(b) /\ b[start + k] # 0
        /\ l = max \/ start + l > Len(b) \/ b[start + l] = 0

\* the name the specification gives the record: the inline 8-byte field
\* up to its NUL, or the string-table string at the stored offset cut to
\* 255 characters
ContractName(img, sym) ==
    IF \A k \in 1..4 : sym.ShortName[k] = 0
    THEN SubSeq(img.string_table, sym.ShortName[5] + 1,
                sym.ShortName[5] + CStrLen(img.string_table, sym.ShortName[5] + 1, 255))
    ELSE SubSeq(sym.ShortName, 1, CStrLen(sym.ShortName, 1, 8))

(***************************************************************************)
(* C20: stored names respect the truncation contract: the name of an       *)
(* entry built from a short-name record is the inline 8-byte field up to   *)
(* its NUL (at most 8 characters), the name of an entry built from a       *)
(* long-name record is the string-table string at the stored offset cut    *)
(* to at most 255 characters, and every indexed name is a NUL-terminated   *)
(* string of length <= 255.                                                *)
(***************************************************************************)
C20_NameTruncation ==
    /\ g_symbol_table # NULL =>
         \A k \in 1..Len(g_symbol_table) :
            /\ Len(g_symbol_table[k].name) <= 255
            /\ \A c \in 1..Len(g_symbol_table[k].name) : g_symbol_table[k].name[c] # 0
    /\ \A t \in Threads :
         pc[t] = "p_sort" =>
            LET recs == PrimaryRecords(image, 0)
            IN \A k \in 1..g_symbol_count :
                 k <= Len(recs) /\ g_symbol_table[k].name = ContractName(image, recs[k])

C20_Witness ==
    \E t \in Threads :
        /\ pc[t] = "p_sort" /\ g_symbol_count = 3
        /\ Len(g_symbol_table[1].name) = 8
        /\ Len(g_symbol_table[2].name) = 255
        /\ Len(g_symbol_table[3].name) = 2

\* the argument list fails the check unw_get_proc_name_windows starts with
Rejected(a) == a.cursor = "null" \/ ~a.buf \/ a.buf_len = 0

(***************************************************************************)
(* C21: resolve() returns only the three documented outcomes: 0 with a     *)
(* name, UNW_ENOINFO when no symbol is found (an instruction pointer of 0  *)
(* included), UNW_EUNSPEC on error. Called with a NULL cursor, a NULL      *)
(* buffer or buf_len 0 it returns UNW_EUNSPEC and leaves the               *)
(* initialization state, the lock, the table and the output buffer as      *)
(* they were: no initialization is triggered.                              *)
(***************************************************************************)
C21_SentinelOutcomes ==
    [][\A t \in Threads :
         /\ Returned(t, "resolve") =>
              /\ ret[t].code \in {UNW_ESUCCESS, UNW_ENOINFO, UNW_EUNSPEC}
              /\ ret[t].code = UNW_ESUCCESS <=> ret[t].wrote
              /\ ret[t].code = UNW_ESUCCESS => NameOfMatch(t)
              /\ (LookedUp(t) /\ ret[t].ip = U(0, 0)) => ret[t].code = UNW_ENOINFO
              /\ Rejected(call[t].args) => ret[t].code = UNW_EUNSPEC
         /\ (pc[t] = "idle" /\ <<call[t], ret[t]>>' # <<call[t], ret[t]>>
             /\ call'[t].op = "resolve" /\ Rejected(call'[t].args)) =>
              /\ pc'[t] = "idle" /\ ret'[t].returned /\ ret'[t].code = UNW_EUNSPEC
              /\ ~ret'[t].wrote /\ ~ret'[t].wrote_off
              /\ UNCHANGED <<globals, parse_runs>>]_vars

C21_Witness ==
    \E t \in Threads :
        /\ Returned(t, "resolve") /\ call[t].args.buf_len = 0 /\ call[t].uninit
        /\ ret[t].code = UNW_EUNSPEC /\ ~ret[t].wrote
        /\ g_initialized = 0 /\ g_lock_initialized = 0 /\ g_symbol_table = NULL

(***************************************************************************)
(* C22: in every interleaving of threads calling initialize(), resolve()   *)
(* and cleanup(), no thread enters the shared lock before                  *)
(* InitializeCriticalSection has completed, and the lock is initialized    *)
(* exactly once: the thread that initializes it is the one that found      *)
(* g_lock_initialized at 0.                                                *)
(***************************************************************************)
C22_LockInitializedBeforeEnter ==
    /\ ~entered_unready
    /\ cs_ready => g_lock_initialized = 1
    /\ \A t, u \in Threads :
         (pc[t] = "init_cs" /\ pc[u] = "init_cs")
             => t = u
    /\ \A t \in Threads : pc[t] = "init_cs" => ~cs_ready

\* the table a lookup reads is complete: the g_symbol_count entries that
\* find_symbol searches are allocated, filled and in ascending order
TableComplete ==
    /\ g_symbol_count <= Len(g_symbol_table)
    /\ \A k \in 1..g_symbol_count : g_symbol_table[k].filled
    /\ Sorted(g_symbol_table, g_symbol_count)

(***************************************************************************)
(* C23: provided no cleanup() runs, a thread on the fast path (it saw      *)
(* g_initialized set without holding the lock, it did not parse itself)    *)
(* never reads a partially built table: when it is about to search, the    *)
(* table pointer, the count, all entries and the sort are complete.        *)
(***************************************************************************)
C23_FastPathSeesCompleteTable ==
    \A t \in Threads :
        (~cleanup_seen /\ pc[t] = "r_lookup" /\ ~call[t].parsed) =>
            /\ g_initialized # 0
            /\ TableComplete

(***************************************************************************)
(* C24: on a successful resolve() with buf_len >= 1 the bytes written to   *)
(* the caller's buffer are the first min(len(name), buf_len - 1)           *)
(* characters of the matched name followed by a NUL, never more than       *)
(* buf_len bytes in all, and the offset is written only when the offset    *)
(* pointer is not NULL (and then it is ip minus the entry's address).      *)
(***************************************************************************)
C24_BoundedNameCopy ==
    \A t \in Threads :
        (Returned(t, "resolve") /\ ret[t].code = UNW_ESUCCESS) =>
            LET a == call[t].args
                e == g_symbol_table[ret[t].match]
                n == Min(Len(e.name), a.buf_len - 1)
            IN /\ a.buf /\ a.buf_len >= 1
               /\ ret[t].wrote
               /\ ret[t].name = SubSeq(e.name, 1, n)
               /\ Len(ret[t].name) + 1 <= a.buf_len
               /\ ret[t].wrote_off <=> a.offp
               /\ ret[t].wrote_off => ret[t].off = Sub64(ret[t].ip, e.address)

C24_Witness ==
    \E t \in Threads :
        /\ Returned(t, "resolve") /\ ret[t].code = UNW_ESUCCESS
        /\ call[t].args.buf_len = 2
        /\ Len(g_symbol_table[ret[t].match].name) > 1
        /\ Len(ret[t].name) = 1
        /\ ret[t].wrote_off

\* a successful resolve() with a NULL offset pointer
C24_NoOffsetReached ==
    \E t \in Threads :
        /\ Returned(t, "resolve") /\ ret[t].code = UNW_ESUCCESS
        /\ ~call[t].args.offp /\ ~ret[t].wrote_off

\* the iterations of the loop of find_symbol from the locals s on: the
\* locals before the first test of 'low < high' and after each iteration
RECURSIVE SearchSteps(_, _, _)
SearchSteps(tab, address, s) ==
    IF s.low < s.high
    THEN <<s>> \o SearchSteps(tab, address, find_symbol_step(tab, address, s))
    ELSE <<s>>

\* every iteration from the locals s on reads an entry of the table,
\* keeps 0 <= low <= high <= count and makes high - low smaller
RECURSIVE SearchNarrows(_, _, _, _)
SearchNarrows(tab, count, address, s) ==
    IF s.low < s.high
    THEN LET n == find_symbol_step(tab, address, s)
         IN /\ s.low <= n.mid /\ n.mid < s.high
            /\ n.mid < count /\ n.mid + 1 \in DOMAIN tab
            /\ 0 <= n.low /\ n.low <= n.high /\ n.high <= count
            /\ n.high - n.low < s.high - s.low
            /\ SearchNarrows(tab, count, address, n)
    ELSE TRUE

(***************************************************************************)
(* C25: the floor binary search narrows its range on every comparison:     *)
(* each iteration strictly decreases high - low, keeps                     *)
(* 0 <= low <= high <= entry count and has mid < entry count, so the       *)
(* search ends (after at most count iterations) for every table and query  *)
(* without indexing outside the table.                                     *)
(***************************************************************************)
C25_SearchNarrows ==
    \A t \in Threads :
        (pc[t] = "r_lookup" /\ g_symbol_table # NULL /\ g_symbol_count > 0) =>
            \A ip \in IPs :
                LET s0 == SearchState(0, g_symbol_count, 0, 0)
                IN /\ SearchNarrows(g_symbol_table, g_symbol_count, ip, s0)
                   /\ Len(SearchSteps(g_symbol_table, ip, s0)) <= g_symbol_count + 1

\* a search of a table of MaxSyms entries that goes down, then up
C25_Witness ==
    \E t \in Threads :
        /\ pc[t] = "r_lookup" /\ g_symbol_table # NULL /\ g_symbol_count = MaxSyms
        /\ \E ip \in IPs :
             LET tr == SearchSteps(g_symbol_table, ip, SearchState(0, g_symbol_count, 0, 0))
             IN /\ Len(tr) >= 3
                /\ tr[2].high < tr[1].high
                /\ tr[3].low > tr[2].low
                /\ tr[Len(tr)].low = tr[Len(tr)].high

====
